---- MODULE Spec2Model ----
(***************************************************************************)
(* codemcp: the JSON-RPC client that drives the gopls subprocess           *)
(* (GoplsClient: Call, Notify, write, ReadLoop, handleMessage), the        *)
(* startup handshake (InitGopls, ShutdownGopls) and the search             *)
(* orchestrator (Search).                                                  *)
(*                                                                         *)
(* Three specifications share the variables below:                         *)
(*   Spec        a freshly constructed GoplsClient used by concurrent      *)
(*               callers of Call and Notify, with the subprocess and the   *)
(*               ReadLoop / handleMessage goroutines;                      *)
(*   SpecInit    main(): InitGopls, the launch of Search's remote branch,  *)
(*               ShutdownGopls;                                            *)
(*   SpecSearch  one invocation of Search with its two branch goroutines.  *)
(***************************************************************************)
EXTENDS Integers, Sequences, FiniteSets, TLC

\* ------------------------------------------------------------------ bounds
NumCallers == 2      \* concurrent goroutines that each invoke Call or Notify once
MaxFrames == 2       \* frames the subprocess emits in one run

Main == 0
Callers == 1..NumCallers
Procs == {Main} \cup Callers

NoHolder == -1       \* sync.Mutex unlocked
NilResult == "nil"   \* a json.RawMessage that is nil (absent "result")
Results == {NilResult, "data"}

VARIABLES
    \* GoplsClient
    seq,        \* c.seq
    pending,    \* c.pending: request id -> channel
    mu,         \* c.mu: NoHolder or the goroutine inside write
    chans,      \* every channel made by Call: channel -> buffered values
    \* the subprocess and its pipes
    procState,  \* "none" | "running" | "exited" | "killed"
    stdinOk,    \* writes to c.stdin succeed
    wire,       \* chunks written to c.stdin, in order
    stream,     \* frames in the stdout pipe, not yet read
    streamOpen, \* the subprocess still holds its end of stdout
    nframes,    \* frames emitted so far
    \* goroutines
    rlPc,       \* ReadLoop: "none" | "run" | "exit"
    handlers,   \* handleMessage goroutines in flight
    pc,         \* per caller: position in Call / Notify / InitGopls
    op,         \* per caller: the operation in progress
    cid,        \* per caller: id of the Call in progress
    cch,        \* per caller: ch of the Call in progress
    ret,        \* per caller: what the last operation returned
    \* history
    allocLog,   \* ids in the order atomic.AddInt64 returned them
    removals,   \* id -> which removals of its pending entry found it
    lateDrops,  \* frames decoded after their Call timed out and then dropped
    discards,   \* frames ReadLoop skipped or handleMessage discarded: <<n, kind, id>>
    \* InitGopls / main
    goplsInstance, \* GoplsInstance # nil
    initRet,       \* InitGopls: resp, err as client.Call returned them
    symCalls,      \* SymbolSearch invocations by Search
    \* Search
    sPc, absRoot, localIn, remoteIn, results, localPc, remotePc, returned, searchErr,
    \* write / ReadLoop at the level of bytes
    frIn,       \* the messages handed to write, in order
    frW,        \* write: messages written so far, and the part written next
    frBuf,      \* the bytes in the pipe, not yet consumed by the reader
    frOpen,     \* the writing end of the pipe is open
    frPc,       \* ReadLoop: where it is, and the length it parsed
    frOut,      \* the bodies ReadLoop handed to handleMessage, in order
    frLog,      \* per decoded body: the declared length and the bytes consumed
    \* SymbolSearch, after the response is decoded
    symIn,      \* query, runtime.GOROOT() and the decoded symbols
    symI,       \* symbols the loop has been through
    symOut,     \* results
    symPc,      \* "none" | "loop" | "done"
    \* Tokenize
    tokIn,      \* input
    tokOut,     \* tokens, once returned
    tokPc       \* "none" | "call" | "done"

clientVars == <<seq, pending, mu, chans>>
pipeVars == <<procState, stdinOk, wire, stream, streamOpen, nframes>>
goVars == <<rlPc, handlers, pc, op, cid, cch, ret>>
histVars == <<allocLog, removals, lateDrops, discards>>
mainVars == <<goplsInstance, initRet, symCalls>>
searchVars == <<sPc, absRoot, localIn, remoteIn, results, localPc, remotePc, returned, searchErr>>
frameVars == <<frIn, frW, frBuf, frOpen, frPc, frOut, frLog>>
symVars == <<symIn, symI, symOut, symPc>>
tokVars == <<tokIn, tokOut, tokPc>>
fnVars == <<frameVars, symVars, tokVars>>
progVars == <<clientVars, pipeVars, goVars, histVars, mainVars, searchVars>>
vars == <<clientVars, pipeVars, goVars, histVars, mainVars, searchVars, fnVars>>

\* ------------------------------------------------------- GoplsClient: helpers

\* id := atomic.AddInt64(&c.seq, 1): the new counter and the id handed out.
AllocIDPostIncrement(s) == [seq |-> s + 1, id |-> s]
AllocID(s) == [seq |-> s + 1, id |-> s + 1]

\* c.mu.Lock() returns only when no goroutine holds the mutex.
CanLockUnguarded(m) == TRUE
CanLock(m) == m = NoHolder

\* c.pending[id] = ch
Register(pend, id, ch) == [k \in DOMAIN pend \cup {id} |-> IF k = id THEN ch ELSE pend[k]]

\* delete(c.pending, id)
DeleteEntry(pend, id) == [k \in DOMAIN pend \ {id} |-> pend[k]]

\* ch, ok := c.pending[resp.ID]
LookupAnyPending(pend, id) ==
    IF DOMAIN pend # {}
    THEN [ok |-> TRUE, ch |-> pend[CHOOSE k \in DOMAIN pend : \A j \in DOMAIN pend : k <= j]]
    ELSE [ok |-> FALSE, ch |-> 0]
Lookup(pend, id) ==
    IF id \in DOMAIN pend THEN [ok |-> TRUE, ch |-> pend[id]] ELSE [ok |-> FALSE, ch |-> 0]

\* handleMessage: if ok { delete(c.pending, resp.ID) }
ResolveKeepsEntry(pend, id) == pend
ResolveEntry(pend, id) == DeleteEntry(pend, id)

\* Call, timeout case: delete(c.pending, id)
EvictTimeoutClearsMap(pend, id) == <<>>
EvictTimeoutKeepsEntry(pend, id) == pend
EvictOnTimeout(pend, id) == DeleteEntry(pend, id)

\* Call, write failure: delete(c.pending, id)
EvictWriteErrorKeepsEntry(pend, id) == pend
EvictOnWriteError(pend, id) == DeleteEntry(pend, id)

\* json.Unmarshal(body, &resp) into JsonRpcResp: a body that does not parse
\* fails; a notification has no "id", which leaves resp.ID at 0.
Unmarshal(f) ==
    CASE f.kind = "resp"  -> [ok |-> TRUE, ID |-> f.id, Result |-> f.val]
      [] f.kind = "notif" -> [ok |-> TRUE, ID |-> 0, Result |-> NilResult]
      [] OTHER            -> [ok |-> FALSE, ID |-> 0, Result |-> NilResult]

\* Frames written whole: the ids of the requests whose body is on the wire.
RequestsOnWire(w) == {w[i].id : i \in {j \in 1..Len(w) : w[j].part = "body" /\ w[j].msg = "request"}}

NoRet == [kind |-> "none", id |-> 0, val |-> NilResult, rid |-> 0, n |-> 0]

\* Where a caller continues when its operation returns.
RetPc(o) ==
    CASE o = "init_call"   -> "init_called"
      [] o = "init_notify" -> "init_assign"
      [] OTHER             -> "done"

Bump(f, k, tag) == [f EXCEPT ![k] = Append(@, tag)]

\* ------------------------------------------------------ GoplsClient: Call

\* Call, lines 130-152: the order of its steps: the id is allocated, the
\* channel registered, the request written, and then the Call waits.
CallOrderWriteFirst(at) ==
    CASE at = "alloc" -> "write" [] at = "written" -> "register" [] OTHER -> "select"
CallOrder(at) ==
    CASE at = "alloc" -> "register" [] at = "register" -> "write" [] OTHER -> "select"

\* Call, lines 130-131: allocate the id and make the channel.
CallAlloc(p, o) ==
    /\ LET a == AllocID(seq)
           ch == Cardinality(DOMAIN chans) + 1
       IN /\ seq' = a.seq
          /\ cid' = [cid EXCEPT ![p] = a.id]
          /\ cch' = [cch EXCEPT ![p] = ch]
          /\ chans' = [c \in DOMAIN chans \cup {ch} |-> IF c = ch THEN <<>> ELSE chans[c]]
          /\ allocLog' = Append(allocLog, a.id)
    /\ op' = [op EXCEPT ![p] = o]
    /\ ret' = [ret EXCEPT ![p] = NoRet]
    /\ pc' = [pc EXCEPT ![p] = CallOrder("alloc")]
    /\ UNCHANGED <<pending, mu, pipeVars, rlPc, handlers, removals, lateDrops, discards,
                   mainVars, searchVars, fnVars>>

\* Call, lines 133-135: register the channel under the id.
CallRegister(p) ==
    /\ pc[p] = "register" /\ CanLock(mu)
    /\ pending' = Register(pending, cid[p], cch[p])
    /\ pc' = [pc EXCEPT ![p] = CallOrder("register")]
    /\ UNCHANGED <<seq, mu, chans, pipeVars, rlPc, handlers, op, cid, cch, ret,
                   histVars, mainVars, searchVars, fnVars>>

\* ------------------------------------------------------ GoplsClient: write

MsgOf(o) == IF o \in {"call", "init_call"} THEN "request" ELSE "notification"

\* The method each operation of the model puts in its message.
MethodOf(o) ==
    CASE o = "init_call"   -> "initialize"
      [] o = "init_notify" -> "initialized"
      [] o = "call"        -> "workspace/symbol"
      [] OTHER             -> "notify"

Chunk(part, p) ==
    [part |-> part, msg |-> MsgOf(op[p]), method |-> MethodOf(op[p]), id |-> cid[p], by |-> p]

\* What follows write's return in its caller.
AfterWrite(p, failed) ==
    IF MsgOf(op[p]) = "request"
    THEN /\ pc' = [pc EXCEPT ![p] = IF failed THEN "evictw" ELSE CallOrder("written")]
         /\ ret' = ret
    ELSE /\ pc' = [pc EXCEPT ![p] = RetPc(op[p])]
         /\ ret' = [ret EXCEPT ![p] = [NoRet EXCEPT !.kind = IF failed THEN "writeerr" ELSE "notified"]]

\* write, lines 169-173: c.mu.Lock(), then the header; when the header
\* write fails the deferred Unlock runs and write returns the error.
WriteHeader(p) ==
    /\ pc[p] = "write" /\ CanLock(mu)
    /\ IF stdinOk
       THEN /\ wire' = Append(wire, Chunk("header", p))
            /\ mu' = p
            /\ pc' = [pc EXCEPT ![p] = "wbody"]
            /\ ret' = ret
       ELSE /\ mu' = NoHolder
            /\ AfterWrite(p, TRUE)
            /\ wire' = wire
    /\ UNCHANGED <<seq, pending, chans, procState, stdinOk, stream, streamOpen, nframes,
                   rlPc, handlers, op, cid, cch, histVars, mainVars, searchVars, fnVars>>

\* write, lines 174-175: the body, then the deferred Unlock.
WriteBody(p) ==
    /\ pc[p] = "wbody"
    /\ IF stdinOk
       THEN wire' = Append(wire, Chunk("body", p))
       ELSE wire' = wire
    /\ mu' = NoHolder
    /\ AfterWrite(p, ~stdinOk)
    /\ UNCHANGED <<seq, pending, chans, procState, stdinOk, stream, streamOpen, nframes,
                   rlPc, handlers, op, cid, cch, histVars, mainVars, searchVars, fnVars>>

\* Call, lines 144-149: the write failed; evict and return the error.
CallEvictWriteError(p) ==
    /\ pc[p] = "evictw" /\ CanLock(mu)
    /\ pending' = EvictOnWriteError(pending, cid[p])
    /\ removals' = IF cid[p] \in DOMAIN pending THEN Bump(removals, cid[p], "writeerr") ELSE removals
    /\ ret' = [ret EXCEPT ![p] = [NoRet EXCEPT !.kind = "writeerr", !.id = cid[p]]]
    /\ pc' = [pc EXCEPT ![p] = RetPc(op[p])]
    /\ UNCHANGED <<seq, mu, chans, pipeVars, rlPc, handlers, op, cid, cch,
                   allocLog, lateDrops, discards, mainVars, searchVars, fnVars>>

\* Call, lines 152-154: case res := <-ch
CallReceive(p) ==
    /\ pc[p] = "select" /\ chans[cch[p]] # <<>>
    /\ LET v == Head(chans[cch[p]])
       IN ret' = [ret EXCEPT ![p] = [kind |-> "result", id |-> cid[p], val |-> v.val, rid |-> v.rid, n |-> v.n]]
    /\ chans' = [chans EXCEPT ![cch[p]] = Tail(@)]
    /\ pc' = [pc EXCEPT ![p] = RetPc(op[p])]
    /\ UNCHANGED <<seq, pending, mu, pipeVars, rlPc, handlers, op, cid, cch,
                   histVars, mainVars, searchVars, fnVars>>

\* Call, line 155: case <-time.After(5 * time.Second)
CallTimeout(p) ==
    /\ pc[p] = "select"
    /\ pc' = [pc EXCEPT ![p] = "evictt"]
    /\ UNCHANGED <<clientVars, pipeVars, rlPc, handlers, op, cid, cch, ret,
                   histVars, mainVars, searchVars, fnVars>>

\* Call, lines 156-159: evict and return the timeout failure.
CallEvictTimeout(p) ==
    /\ pc[p] = "evictt" /\ CanLock(mu)
    /\ pending' = EvictOnTimeout(pending, cid[p])
    /\ removals' = IF cid[p] \in DOMAIN pending THEN Bump(removals, cid[p], "timeout") ELSE removals
    /\ ret' = [ret EXCEPT ![p] = [NoRet EXCEPT !.kind = "timeout", !.id = cid[p]]]
    /\ pc' = [pc EXCEPT ![p] = RetPc(op[p])]
    /\ UNCHANGED <<seq, mu, chans, pipeVars, rlPc, handlers, op, cid, cch,
                   allocLog, lateDrops, discards, mainVars, searchVars, fnVars>>

\* Notify, lines 119-126: build the notification and write it.
NotifyBegin(p, o) ==
    /\ op' = [op EXCEPT ![p] = o]
    /\ cid' = [cid EXCEPT ![p] = 0]
    /\ ret' = [ret EXCEPT ![p] = NoRet]
    /\ pc' = [pc EXCEPT ![p] = "write"]

NotifyStart(p, o) ==
    /\ NotifyBegin(p, o)
    /\ UNCHANGED <<clientVars, pipeVars, rlPc, handlers, cch, histVars, mainVars, searchVars, fnVars>>

\* ------------------------------------------- the subprocess and its pipes

Frame(kind, id, val) == [n |-> nframes + 1, kind |-> kind, id |-> id, val |-> val]

Emit(f) ==
    /\ procState = "running" /\ streamOpen /\ nframes < MaxFrames
    /\ stream' = Append(stream, f)
    /\ nframes' = nframes + 1
    /\ UNCHANGED <<clientVars, procState, stdinOk, wire, streamOpen, goVars, histVars,
                   mainVars, searchVars, fnVars>>

\* gopls answers a request it has read, with a result or with an error
\* object (no "result"); it may answer late, in any order, or twice.
ServerRespond ==
    \E id \in RequestsOnWire(wire), v \in Results : Emit(Frame("resp", id, v))

\* gopls emits something that is no response: a notification, a body that
\* does not parse, a frame of declared length 0, a header that
\* ReadMIMEHeader rejects, a body that parses and carries the id 0.
ServerOther ==
    \/ \E k \in {"notif", "garbage", "empty", "badheader"} : Emit(Frame(k, 0, NilResult))
    \/ Emit(Frame("resp", 0, NilResult))

\* The subprocess exits on its own: every later write to its stdin fails
\* (EPIPE) and its stdout ends after what it has already written.
ServerExit ==
    /\ procState = "running"
    /\ procState' = "exited"
    /\ stdinOk' = FALSE
    /\ streamOpen' = FALSE
    /\ UNCHANGED <<clientVars, wire, stream, nframes, goVars, histVars, mainVars, searchVars, fnVars>>

\* ----------------------------------------- ReadLoop and handleMessage

\* The ids whose Call has returned the timeout failure.
TimedOut == {ret[p].id : p \in {q \in Procs : ret[q].kind = "timeout"}}

\* ReadLoop, lines 186-195: the loop after the header of a frame is read:
\* `return` on a header error, `continue` on a declared length of 0.
AfterFrameZeroEnds(kind, cur) == IF kind \in {"badheader", "empty"} THEN "exit" ELSE cur
AfterFrame(kind, cur) == IF kind = "badheader" THEN "exit" ELSE cur

\* ReadLoop, lines 184-206: one iteration that reads a frame. A header
\* error ends the loop; a declared length of 0 continues with the next
\* frame; otherwise the body is handed to a new handleMessage goroutine.
ReadLoopFrame ==
    /\ rlPc = "run" /\ stream # <<>>
    /\ LET f == Head(stream)
       IN /\ handlers' = IF f.kind \in {"empty", "badheader"} THEN handlers
                         ELSE handlers \cup {[n |-> f.n, kind |-> f.kind, id |-> f.id, val |-> f.val,
                                              pc |-> "start", ch |-> 0,
                                              late |-> f.id \in TimedOut]}
          /\ rlPc' = AfterFrame(f.kind, rlPc)
          /\ discards' = IF f.kind = "empty" THEN discards \cup {<<f.n, f.kind, f.id>>} ELSE discards
    /\ stream' = Tail(stream)
    /\ UNCHANGED <<clientVars, procState, stdinOk, wire, streamOpen, nframes,
                   pc, op, cid, cch, ret, allocLog, removals, lateDrops, mainVars, searchVars, fnVars>>

\* ReadLoop, lines 186-189: ReadMIMEHeader fails at the end of the stream.
ReadLoopExit ==
    /\ rlPc = "run" /\ stream = <<>> /\ ~streamOpen
    /\ rlPc' = "exit"
    /\ UNCHANGED <<clientVars, pipeVars, handlers, pc, op, cid, cch, ret, histVars,
                   mainVars, searchVars, fnVars>>

\* handleMessage, lines 211-219: decode; for a response with a nonzero id,
\* look the id up under the mutex and remove the entry found.
HandleLookup(h) ==
    /\ h \in handlers /\ h.pc = "start"
    /\ LET resp == Unmarshal(h)
       IN IF resp.ok /\ resp.ID # 0
          THEN /\ CanLock(mu)
               /\ LET l == Lookup(pending, resp.ID)
                  IN IF l.ok
                     THEN /\ pending' = ResolveEntry(pending, resp.ID)
                          /\ removals' = Bump(removals, resp.ID, "resolve")
                          /\ handlers' = (handlers \ {h}) \cup {[h EXCEPT !.pc = "send", !.ch = l.ch]}
                          /\ UNCHANGED <<lateDrops, discards>>
                     ELSE /\ handlers' = handlers \ {h}
                          /\ lateDrops' = IF h.late THEN lateDrops \cup {h.n} ELSE lateDrops
                          /\ discards' = discards \cup {<<h.n, h.kind, h.id>>}
                          /\ UNCHANGED <<pending, removals>>
          ELSE /\ handlers' = handlers \ {h}
               /\ discards' = discards \cup {<<h.n, h.kind, h.id>>}
               /\ UNCHANGED <<pending, removals, lateDrops>>
    /\ UNCHANGED <<seq, mu, chans, pipeVars, rlPc, pc, op, cid, cch, ret,
                   allocLog, mainVars, searchVars, fnVars>>

\* handleMessage, lines 221-223: ch <- resp.Result (ch has capacity 1).
HandleSend(h) ==
    /\ h \in handlers /\ h.pc = "send"
    /\ Len(chans[h.ch]) < 1
    /\ chans' = [chans EXCEPT ![h.ch] = Append(@, [val |-> h.val, rid |-> h.id, n |-> h.n])]
    /\ handlers' = handlers \ {h}
    /\ UNCHANGED <<seq, pending, mu, pipeVars, rlPc, pc, op, cid, cch, ret,
                   histVars, mainVars, searchVars, fnVars>>

\* A goroutine of the surrounding program invokes c.Call or c.Notify.
APICall(p) == pc[p] = "idle" /\ CallAlloc(p, "call")
APINotify(p) == pc[p] = "idle" /\ NotifyStart(p, "notify")

Server == ServerRespond \/ ServerOther \/ ServerExit
Dispatch == \E h \in handlers : HandleLookup(h)
Deliver == \E h \in handlers : HandleSend(h)
Reader == ReadLoopFrame \/ ReadLoopExit \/ Dispatch \/ Deliver

CallSteps(p) ==
    \/ CallRegister(p) \/ WriteHeader(p) \/ WriteBody(p)
    \/ CallEvictWriteError(p) \/ CallReceive(p) \/ CallTimeout(p) \/ CallEvictTimeout(p)

\* --------------------------------------------------------- specification

\* The byte-level pipe is not in use.
FrameIdle ==
    /\ frIn = <<>> /\ frW = [n |-> 0, part |-> "header"] /\ frBuf = <<>> /\ frOpen = FALSE
    /\ frPc = [at |-> "none", length |-> 0] /\ frOut = <<>> /\ frLog = <<>>

SymIdle == symIn = [query |-> <<>>, goRoot |-> <<>>, symbols |-> <<>>] /\ symI = 0 /\ symOut = <<>> /\ symPc = "none"

TokIdle == tokIn = <<>> /\ tokOut = <<>> /\ tokPc = "none"

FnIdle == FrameIdle /\ SymIdle /\ TokIdle

SearchIdle ==
    /\ sPc = "none" /\ absRoot = <<>> /\ localIn = <<>> /\ remoteIn = [err |-> FALSE, res |-> <<>>]
    /\ results = <<>> /\ localPc = "none" /\ remotePc = "none"
    /\ returned = <<>> /\ searchErr = "none"

\* A GoplsClient as InitGopls constructs it (lines 54-61) over a started
\* subprocess, with the ReadLoop goroutine running.
ClientFresh ==
    /\ seq = 0 /\ pending = <<>> /\ mu = NoHolder /\ chans = <<>>
    /\ stdinOk = TRUE /\ wire = <<>> /\ stream = <<>> /\ streamOpen = TRUE /\ nframes = 0
    /\ handlers = {}
    /\ op = [p \in Procs |-> "none"]
    /\ cid = [p \in Procs |-> 0]
    /\ cch = [p \in Procs |-> 0]
    /\ ret = [p \in Procs |-> NoRet]
    /\ allocLog = <<>>
    /\ removals = [i \in 0..(NumCallers + 1) |-> <<>>]
    /\ lateDrops = {}
    /\ discards = {}

\* The program with its client up and no operation in progress.
ProgServing ==
    /\ ClientFresh
    /\ procState = "running" /\ rlPc = "run"
    /\ pc = [p \in Procs |-> IF p = Main THEN "serving" ELSE "idle"]
    /\ goplsInstance = TRUE /\ initRet = NoRet /\ symCalls = 0
    /\ SearchIdle

Init ==
    /\ ClientFresh
    /\ procState = "running" /\ rlPc = "run"
    /\ pc = [p \in Procs |-> IF p = Main THEN "serving" ELSE "idle"]
    /\ goplsInstance = TRUE /\ initRet = NoRet /\ symCalls = 0
    /\ SearchIdle /\ FnIdle

Next ==
    \/ \E p \in Callers : APICall(p) \/ APINotify(p) \/ CallSteps(p)
    \/ Server
    \/ Reader

Spec == Init /\ [][Next]_vars

\* The same program under the scheduling Go gives it: a goroutine inside
\* Call, Notify or write that can take its next step (the mutex is free,
\* the channel has a value, the timer of time.After fires) takes it.
SpecLive == Spec /\ \A p \in Callers : WF_vars(CallSteps(p))

\* ------------------------------------------- main: InitGopls, ShutdownGopls

\* InitGopls, lines 38-41: exec.LookPath("gopls")
InitLookPath ==
    /\ pc[Main] = "lookpath"
    /\ \E found \in BOOLEAN : pc' = [pc EXCEPT ![Main] = IF found THEN "start" ELSE "init_returned"]
    /\ UNCHANGED <<clientVars, pipeVars, rlPc, handlers, op, cid, cch, ret, histVars,
                   mainVars, searchVars, fnVars>>

\* InitGopls, lines 44-61: cmd.Start(); on success the client is built and
\* the ReadLoop goroutine started.
InitStart ==
    /\ pc[Main] = "start"
    /\ \E started \in BOOLEAN :
          IF started
          THEN /\ procState' = "running" /\ rlPc' = "run"
               /\ pc' = [pc EXCEPT ![Main] = "init_call"]
          ELSE /\ pc' = [pc EXCEPT ![Main] = "init_returned"]
               /\ UNCHANGED <<procState, rlPc>>
    /\ UNCHANGED <<clientVars, stdinOk, wire, stream, streamOpen, nframes, handlers,
                   op, cid, cch, ret, histVars, mainVars, searchVars, fnVars>>

\* InitGopls, line 71: client.Call("initialize", initParams)
InitCall == pc[Main] = "init_call" /\ CallAlloc(Main, "init_call")

\* InitGopls, lines 72-75: if err != nil { ...; return }
CallFailedOrNilResult(r) == r.kind # "result" \/ r.val = NilResult
CallFailed(r) == r.kind # "result"

\* InitGopls, lines 71-79: the Call has returned; on an error return,
\* otherwise client.Notify("initialized", ...).
InitCalled ==
    /\ pc[Main] = "init_called"
    /\ initRet' = ret[Main]
    /\ IF CallFailed(ret[Main])
       THEN /\ pc' = [pc EXCEPT ![Main] = "init_returned"]
            /\ UNCHANGED <<op, cid, ret>>
       ELSE NotifyBegin(Main, "init_notify")
    /\ UNCHANGED <<clientVars, pipeVars, rlPc, handlers, cch, histVars,
                   goplsInstance, symCalls, searchVars, fnVars>>

\* InitGopls, line 81: if resp != nil
AssignUnchecked(r) == TRUE
RespNotNil(r) == r.val # NilResult

\* InitGopls, lines 81-84: GoplsInstance = client, when resp is not nil.
InitAssign ==
    /\ pc[Main] = "init_assign"
    /\ goplsInstance' = IF RespNotNil(initRet) THEN TRUE ELSE goplsInstance
    /\ pc' = [pc EXCEPT ![Main] = "init_returned"]
    /\ UNCHANGED <<clientVars, pipeVars, rlPc, handlers, op, cid, cch, ret, histVars,
                   initRet, symCalls, searchVars, fnVars>>

\* main, lines 88-96 and Search, lines 285-291: the search runs; its remote
\* branch is launched, and calls SymbolSearch, only if GoplsInstance != nil.
MainSearch ==
    /\ pc[Main] = "init_returned"
    /\ symCalls' = IF goplsInstance THEN symCalls + 1 ELSE symCalls
    /\ pc' = [pc EXCEPT ![Main] = "searched"]
    /\ UNCHANGED <<clientVars, pipeVars, rlPc, handlers, op, cid, cch, ret, histVars,
                   goplsInstance, initRet, searchVars, fnVars>>

\* ShutdownGopls, lines 87-91, deferred by main (line 85).
MainShutdown ==
    /\ pc[Main] = "searched"
    /\ IF goplsInstance /\ procState = "running"
       THEN procState' = "killed" /\ stdinOk' = FALSE /\ streamOpen' = FALSE
       ELSE UNCHANGED <<procState, stdinOk, streamOpen>>
    /\ pc' = [pc EXCEPT ![Main] = "exit"]
    /\ UNCHANGED <<clientVars, wire, stream, nframes, rlPc, handlers, op, cid, cch, ret,
                   histVars, mainVars, searchVars, fnVars>>

\* The program at the start of InitGopls: no subprocess, no client.
InitMain ==
    /\ ClientFresh
    /\ procState = "none" /\ rlPc = "none"
    /\ pc = [p \in Procs |-> IF p = Main THEN "lookpath" ELSE "idle"]
    /\ goplsInstance = FALSE /\ initRet = NoRet /\ symCalls = 0
    /\ SearchIdle /\ FnIdle

NextMain ==
    \/ InitLookPath \/ InitStart \/ InitCall \/ InitCalled \/ InitAssign
    \/ MainSearch \/ MainShutdown
    \/ CallSteps(Main)
    \/ Server
    \/ Reader

SpecInit == InitMain /\ [][NextMain]_vars

\* ------------------------------------------------------- Search: paths
\* A path is the sequence of its characters.

Sep == "/"

\* strings.HasPrefix(s, prefix)
HasPrefix(s, prefix) == Len(prefix) <= Len(s) /\ SubSeq(s, 1, Len(prefix)) = prefix

\* filepath.IsAbs(path)
IsAbs(path) == HasPrefix(path, <<Sep>>)

RECURSIVE SplitFrom(_, _, _)
SplitFrom(s, i, cur) ==
    IF i > Len(s) THEN <<cur>>
    ELSE IF s[i] = Sep THEN <<cur>> \o SplitFrom(s, i + 1, <<>>)
    ELSE SplitFrom(s, i + 1, Append(cur, s[i]))

\* strings.Split(s, "/")
Split(s) == SplitFrom(s, 1, <<>>)

RECURSIVE JoinSegs(_)
JoinSegs(segs) ==
    IF segs = <<>> THEN <<>>
    ELSE IF Len(segs) = 1 THEN segs[1]
    ELSE segs[1] \o <<Sep>> \o JoinSegs(Tail(segs))

DotDot == <<".", ".">>

\* filepath.Clean, the element stack: empty and "." elements go, ".."
\* removes the element before it, and is kept only in an unrooted path with
\* nothing left to remove.
RECURSIVE CleanSegs(_, _, _)
CleanSegs(segs, stack, rooted) ==
    IF segs = <<>> THEN stack
    ELSE LET e == Head(segs)
             next == IF e = <<>> \/ e = <<".">> THEN stack
                     ELSE IF e = DotDot
                     THEN IF stack # <<>> /\ stack[Len(stack)] # DotDot
                          THEN SubSeq(stack, 1, Len(stack) - 1)
                          ELSE IF rooted THEN stack ELSE Append(stack, e)
                     ELSE Append(stack, e)
         IN CleanSegs(Tail(segs), next, rooted)

\* filepath.Clean(path)
Clean(path) ==
    IF path = <<>> THEN <<".">>
    ELSE LET body == JoinSegs(CleanSegs(Split(path), <<>>, IsAbs(path)))
             out == IF IsAbs(path) THEN <<Sep>> \o body ELSE body
         IN IF out = <<>> THEN <<".">> ELSE out

\* filepath.Join(a, b)
Join(a, b) ==
    IF a = <<>> /\ b = <<>> THEN <<>>
    ELSE IF a = <<>> THEN Clean(b)
    ELSE Clean(a \o <<Sep>> \o b)

Elems(cleaned) == CleanSegs(Split(cleaned), <<>>, IsAbs(cleaned))

RECURSIVE CommonLen(_, _)
CommonLen(a, b) ==
    IF a = <<>> \/ b = <<>> \/ Head(a) # Head(b) THEN 0 ELSE 1 + CommonLen(Tail(a), Tail(b))

\* rel, _ := filepath.Rel(base, targ): the common leading elements go, each
\* remaining element of base becomes "..", targ's remainder follows; when no
\* relative path exists Rel fails and rel is "".
Rel(base, targ) ==
    LET b == Clean(base)
        t == Clean(targ)
        bs == IF b = <<".">> THEN <<>> ELSE Elems(b)
        ts == IF t = <<".">> THEN <<>> ELSE Elems(t)
        k == CommonLen(bs, ts)
        rest == SubSeq(bs, k + 1, Len(bs))
    IN IF t = b THEN <<".">>
       ELSE IF IsAbs(b) # IsAbs(t) THEN <<>>
       ELSE IF \E i \in 1..Len(rest) : rest[i] = DotDot THEN <<>>
       ELSE JoinSegs([i \in 1..Len(rest) |-> DotDot] \o SubSeq(ts, k + 1, Len(ts)))

\* ------------------------------------------------------ Search: records

\* FileScore
FileScore(path, score, reasons, isDep) ==
    [Path |-> path, Score |-> score, Reasons |-> reasons, IsDep |-> isDep]

\* Search, lines 299-303: the absolute path of a record already collected.
ExistingAbs(path, root) == IF IsAbs(path) THEN path ELSE Join(root, path)

\* Search, lines 297-309: was the file already found?
IsDup(res, gr, root) == \E i \in 1..Len(res) : ExistingAbs(res[i].Path, root) = gr.Path

\* Search, lines 313-318: a gopls record inside the root becomes relative
\* and local.
Localize(gr, root) ==
    IF HasPrefix(gr.Path, root)
    THEN [gr EXCEPT !.Path = Rel(root, gr.Path), !.IsDep = FALSE]
    ELSE gr

\* Search, lines 295-321: the merge loop over goplsRes.
RECURSIVE MergeRemote(_, _, _)
MergeRemote(res, goplsRes, root) ==
    IF goplsRes = <<>> THEN res
    ELSE LET gr == Head(goplsRes)
         IN MergeRemote(IF IsDup(res, gr, root) THEN res ELSE Append(res, Localize(gr, root)),
                        Tail(goplsRes), root)

\* Search, lines 330-332: the less function handed to sort.Slice.
LessAscending(a, b) == a.Score < b.Score
Less(a, b) == a.Score > b.Score

\* sort.Slice(results, less): some permutation of the slice in which no
\* element sorts before an earlier one; the order of elements that less
\* does not separate is not specified (the sort is not stable).
RECURSIVE SortedFrom(_, _)
SortedFrom(s, idx) ==
    IF idx = {} THEN {<<>>}
    ELSE UNION {{<<s[i]>> \o t : t \in SortedFrom(s, idx \ {i})} :
                i \in {j \in idx : \A k \in idx : ~Less(s[k], s[j])}}
SortOutcomes(s) == SortedFrom(s, 1..Len(s))

\* Search, lines 335-337: at most 50 results.
MaxResults == 50
Truncate(s) == IF Len(s) > MaxResults THEN SubSeq(s, 1, MaxResults) ELSE s

\* Search, line 338: return results, nil
ReturnRemoteErr(remoteFailed) == IF remoteFailed THEN "error" ELSE "nil"
ReturnErr(remoteFailed) == "nil"

\* ------------------------------------------------------- Search: inputs

MaxLocal == 2        \* records LocalSearch returns (small inputs)
MaxRemote == 2       \* records SymbolSearch returns

Digit == <<"0", "1", "2", "3", "4", "5", "6", "7", "8", "9">>
RECURSIVE Itoa(_)
Itoa(n) == IF n < 10 THEN <<Digit[n + 1]>> ELSE Append(Itoa(n \div 10), Digit[(n % 10) + 1])

RootApp == <<"/", "a", "p", "p">>

\* What LocalSearch can return: root-relative paths as git ls-files lists
\* them, each with the score and reasons ScoreFile gave it.
LocalPool ==
    { FileScore(<<"a", ".", "g", "o">>, 115, <<"func:Login">>, FALSE),
      FileScore(<<"p", "k", "g", "/", "b", ".", "g", "o">>, 65, <<"type:Login">>, FALSE),
      FileScore(<<"c", ".", "g", "o">>, 65, <<"func:login">>, FALSE) }

\* What SymbolSearch can return: absolute paths with the scores of its
\* scoring; the first is the file a.go of LocalPool, the second and third
\* lie in the root too, the fourth is a module-cache dependency, the fifth
\* a dependency in a module cache next to the root, under /apple.
RemotePool ==
    { FileScore(<<"/", "a", "p", "p", "/", "a", ".", "g", "o">>, 60, <<"gopls:Login">>, FALSE),
      FileScore(<<"/", "a", "p", "p", "/", "d", ".", "g", "o">>, 110, <<"gopls:login">>, FALSE),
      FileScore(<<"/", "a", "p", "p", "/", "d", ".", "g", "o">>, 70, <<"gopls:LoginForm">>, FALSE),
      FileScore(<<"/", "m", "/", "p", "k", "g", "/", "m", "o", "d", "/", "e", ".", "g", "o">>, 35, <<"gopls:Login">>, TRUE),
      FileScore(<<"/", "a", "p", "p", "l", "e", "/", "p", "k", "g", "/", "m", "o", "d", "/", "e", ".", "g", "o">>, 45, <<"gopls:LoginUser">>, TRUE) }

\* Sequences over a pool, without repetition, of length at most n.
RECURSIVE SeqsUpTo(_, _)
SeqsUpTo(pool, n) ==
    IF n = 0 THEN {<<>>}
    ELSE {<<>>} \cup UNION {{<<r>> \o t : t \in SeqsUpTo(pool \ {r}, n - 1)} : r \in pool}

\* A large local result: n files in listing order, file i with i matching
\* declarations (40 each, plus 25 for .go); the first two score alike.
BigLocal(n) ==
    [i \in 1..n |-> FileScore(<<"f">> \o Itoa(i) \o <<".", "g", "o">>,
                             IF i = 1 THEN 105 ELSE 40 * i + 25, <<"func:Login">>, FALSE)]

LocalInputs == SeqsUpTo(LocalPool, MaxLocal) \cup {BigLocal(MaxResults - 1), BigLocal(MaxResults + 1)}
RemoteInputs ==
    {[err |-> TRUE, res |-> <<>>]} \cup {[err |-> FALSE, res |-> r] : r \in SeqsUpTo(RemotePool, MaxRemote)}

\* ------------------------------------------------------ Search: actions

\* Search, lines 265-288: the two branch goroutines are launched, the
\* remote one only if GoplsInstance != nil.
SearchStart ==
    /\ sPc = "start"
    /\ localPc' = "run"
    /\ remotePc' = IF goplsInstance THEN "run" ELSE "none"
    /\ sPc' = "wait"
    /\ UNCHANGED <<fnVars, clientVars, pipeVars, goVars, histVars, mainVars,
                   absRoot, localIn, remoteIn, results, returned, searchErr>>

\* Search, lines 277-283: the local branch appends what LocalSearch found.
LocalBranch ==
    /\ localPc = "run"
    /\ results' = results \o localIn
    /\ localPc' = "done"
    /\ UNCHANGED <<fnVars, clientVars, pipeVars, goVars, histVars, mainVars,
                   sPc, absRoot, localIn, remoteIn, remotePc, returned, searchErr>>

\* Search, lines 288-324: the remote branch calls SymbolSearch and, when it
\* succeeded, merges its records into results under the mutex.
RemoteBranch ==
    /\ remotePc = "run"
    /\ symCalls' = symCalls + 1
    /\ results' = IF remoteIn.err THEN results ELSE MergeRemote(results, remoteIn.res, absRoot)
    /\ remotePc' = "done"
    /\ UNCHANGED <<fnVars, clientVars, pipeVars, goVars, histVars, goplsInstance, initRet,
                   sPc, absRoot, localIn, remoteIn, localPc, returned, searchErr>>

\* Search, lines 327-338: wg.Wait(), sort, truncate, return.
SearchReturn ==
    /\ sPc = "wait" /\ localPc = "done" /\ remotePc \in {"none", "done"}
    /\ \E sorted \in SortOutcomes(results) : returned' = Truncate(sorted)
    /\ searchErr' = ReturnErr(remotePc = "done" /\ remoteIn.err)
    /\ sPc' = "done"
    /\ UNCHANGED <<fnVars, clientVars, pipeVars, goVars, histVars, mainVars,
                   absRoot, localIn, remoteIn, results, localPc, remotePc>>

\* One invocation of Search(absRoot, query): the root, what LocalSearch and
\* SymbolSearch will return for the query, and whether InitGopls left a
\* client behind.
InitSearch ==
    /\ ClientFresh
    /\ goplsInstance \in BOOLEAN
    /\ procState = (IF goplsInstance THEN "running" ELSE "none")
    /\ rlPc = (IF goplsInstance THEN "run" ELSE "none")
    /\ pc = [p \in Procs |-> IF p = Main THEN "serving" ELSE "idle"]
    /\ initRet = NoRet /\ symCalls = 0
    /\ sPc = "start" /\ absRoot = RootApp
    /\ localIn \in LocalInputs
    /\ remoteIn \in RemoteInputs
    /\ results = <<>> /\ localPc = "none" /\ remotePc = "none"
    /\ returned = <<>> /\ searchErr = "none"
    /\ FnIdle

NextSearch == SearchStart \/ LocalBranch \/ RemoteBranch \/ SearchReturn

SpecSearch == InitSearch /\ [][NextSearch]_vars

\* ------------------------------------------------ write / ReadLoop: bytes
\* A byte is a one-character string, a byte string the sequence of its bytes.

CR == "\r"
LF == "\n"
Quote == "\""
Backslash == "\\"

\* encoding/json, string values: quote, backslash and control characters
\* are escaped, so a serialized body holds no raw CR or LF.
RECURSIVE EscapeJSON(_)
EscapeJSON(str) ==
    IF str = <<>> THEN <<>>
    ELSE LET c == Head(str)
             e == CASE c = Quote     -> <<Backslash, Quote>>
                    [] c = Backslash -> <<Backslash, Backslash>>
                    [] c = LF        -> <<Backslash, "n">>
                    [] c = CR        -> <<Backslash, "r">>
                    [] OTHER         -> <<c>>
         IN e \o EscapeJSON(Tail(str))

JSONString(str) == <<Quote>> \o EscapeJSON(str) \o <<Quote>>

\* json.Marshal of the params used here: map[string]any{} and
\* map[string]any{"query": query}.
MarshalParams(params) ==
    IF params.k = "empty" THEN <<"{", "}">>
    ELSE <<"{", Quote, "q", "u", "e", "r", "y", Quote, ":">> \o JSONString(params.q) \o <<"}">>

\* body, _ := json.Marshal(msg) for JsonRpcReq and JsonRpcNotification: the
\* fields in declaration order; a notification has no "id".
Marshal(msg) ==
    <<"{", Quote, "j", "s", "o", "n", "r", "p", "c", Quote, ":", Quote, "2", ".", "0", Quote, ",">>
    \o (IF msg.kind = "request" THEN <<Quote, "i", "d", Quote, ":">> \o Itoa(msg.ID) \o <<",">> ELSE <<>>)
    \o <<Quote, "m", "e", "t", "h", "o", "d", Quote, ":">> \o JSONString(msg.Method)
    \o <<",", Quote, "p", "a", "r", "a", "m", "s", Quote, ":">> \o MarshalParams(msg.Params)
    \o <<"}">>

\* write, line 167: the length the header declares is len(body), in bytes.
DeclaredOneMore(body) == Len(body) + 1
Declared(body) == Len(body)

\* write, line 167: fmt.Sprintf("Content-Length: %d\r\n\r\n", len(body))
Header(body) ==
    <<"C", "o", "n", "t", "e", "n", "t", "-", "L", "e", "n", "g", "t", "h", ":", " ">>
    \o Itoa(Declared(body)) \o <<CR, LF, CR, LF>>

\* textproto.Reader.ReadLine from position i: the bytes up to the next LF,
\* without the LF and without a CR before it; not ok when no LF is there.
ReadLine(buf, i) ==
    IF \E j \in i..Len(buf) : buf[j] = LF
    THEN LET j == CHOOSE k \in i..Len(buf) : buf[k] = LF /\ \A m \in i..(k - 1) : buf[m] # LF
             raw == SubSeq(buf, i, j - 1)
         IN [ok |-> TRUE, next |-> j + 1,
             line |-> IF raw # <<>> /\ raw[Len(raw)] = CR THEN SubSeq(raw, 1, Len(raw) - 1) ELSE raw]
    ELSE [ok |-> FALSE, next |-> i, line |-> <<>>]

\* ReadMIMEHeader: the lines up to the first blank line.
RECURSIVE ReadLines(_, _, _)
ReadLines(buf, i, acc) ==
    LET l == ReadLine(buf, i)
    IN IF ~l.ok THEN [ok |-> FALSE, next |-> i, lines |-> acc]
       ELSE IF l.line = <<>> THEN [ok |-> TRUE, next |-> l.next, lines |-> acc]
       ELSE ReadLines(buf, l.next, Append(acc, l.line))

Blank == {" ", "\t"}

RECURSIVE TrimLeft(_)
TrimLeft(str) == IF str # <<>> /\ Head(str) \in Blank THEN TrimLeft(Tail(str)) ELSE str
RECURSIVE TrimRight(_)
TrimRight(str) ==
    IF str # <<>> /\ str[Len(str)] \in Blank THEN TrimRight(SubSeq(str, 1, Len(str) - 1)) ELSE str

\* ReadMIMEHeader, one line: the key before the first colon, the value
\* after it without surrounding blanks; a line without a colon, or with a
\* blank in its key, is malformed.
ParseLine(line) ==
    IF \E k \in 1..Len(line) : line[k] = ":"
    THEN LET k == CHOOSE c \in 1..Len(line) : line[c] = ":" /\ \A m \in 1..(c - 1) : line[m] # ":"
             key == SubSeq(line, 1, k - 1)
         IN [ok |-> key # <<>> /\ \A m \in 1..Len(key) : key[m] \notin Blank,
             key |-> key, value |-> TrimRight(TrimLeft(SubSeq(line, k + 1, Len(line))))]
    ELSE [ok |-> FALSE, key |-> <<>>, value |-> <<>>]

ContentLengthKey == <<"C", "o", "n", "t", "e", "n", "t", "-", "L", "e", "n", "g", "t", "h">>

\* headers.Get("Content-Length"): the value of the first such line, or "".
HeaderGet(lines) ==
    LET hits == {i \in 1..Len(lines) : ParseLine(lines[i]).key = ContentLengthKey}
    IN IF hits = {} THEN <<>>
       ELSE ParseLine(lines[CHOOSE i \in hits : \A j \in hits : i <= j]).value

DigitValue(c) == CHOOSE d \in 0..9 : Digit[d + 1] = c
IsDigit(c) == \E d \in 0..9 : Digit[d + 1] = c

RECURSIVE ParseDigits(_, _)
ParseDigits(str, acc) ==
    IF str = <<>> THEN acc ELSE ParseDigits(Tail(str), 10 * acc + DigitValue(Head(str)))

\* length, _ := strconv.Atoi(lengthStr): an optional sign and decimal
\* digits; anything else leaves length at 0.
Atoi(str) ==
    LET signed == str # <<>> /\ Head(str) \in {"+", "-"}
        digits == IF signed THEN Tail(str) ELSE str
    IN IF digits = <<>> \/ \E i \in 1..Len(digits) : ~IsDigit(digits[i]) THEN 0
       ELSE IF signed /\ Head(str) = "-" THEN 0 - ParseDigits(digits, 0)
       ELSE ParseDigits(digits, 0)

\* ----- the messages written

MaxMsgs == 2         \* messages written back to back in one run

RECURSIVE Repeat(_, _)
Repeat(str, n) == IF n = 0 THEN <<>> ELSE str \o Repeat(str, n - 1)

Request(id, method, params) == [kind |-> "request", ID |-> id, Method |-> method, Params |-> params]
Notification(method, params) == [kind |-> "notification", ID |-> 0, Method |-> method, Params |-> params]
Query(q) == [k |-> "query", q |-> q]

WorkspaceSymbol == <<"w", "o", "r", "k", "s", "p", "a", "c", "e", "/", "s", "y", "m", "b", "o", "l">>

\* Messages as Call and Notify build them: the initialized notification,
\* symbol requests with a short query, with a query that holds a line break,
\* a header line and a quote, and with a long query, and a notification
\* with empty method and query.
MsgPool ==
    { Notification(<<"i", "n", "i", "t", "i", "a", "l", "i", "z", "e", "d">>, [k |-> "empty"]),
      Request(2, WorkspaceSymbol, Query(<<"a">>)),
      Request(12, WorkspaceSymbol,
              Query(<<"a", CR, LF, "C", "o", "n", "t", "e", "n", "t", "-", "L", "e", "n", "g", "t", "h", ":", " ", "1", Quote>>)),
      Request(3, WorkspaceSymbol, Query(Repeat(<<"S", "e", "r", "v", "e", "r">>, 10))),
      Notification(<<>>, Query(<<>>)) }

RECURSIVE SeqsOver(_, _)
SeqsOver(pool, n) ==
    IF n = 0 THEN {<<>>}
    ELSE {<<>>} \cup UNION {{<<r>> \o t : t \in SeqsOver(pool, n - 1)} : r \in pool}

\* ----- actions

\* write, lines 171-173: the header of the next message.
FrWriteHeader ==
    /\ frOpen /\ frW.part = "header" /\ frW.n < Len(frIn)
    /\ frBuf' = frBuf \o Header(Marshal(frIn[frW.n + 1]))
    /\ frW' = [frW EXCEPT !.part = "body"]
    /\ UNCHANGED <<frIn, frOpen, frPc, frOut, frLog>>
    /\ UNCHANGED <<progVars, symVars, tokVars>>

\* write, lines 174-175: its body.
FrWriteBody ==
    /\ frOpen /\ frW.part = "body"
    /\ frBuf' = frBuf \o Marshal(frIn[frW.n + 1])
    /\ frW' = [n |-> frW.n + 1, part |-> "header"]
    /\ UNCHANGED <<frIn, frOpen, frPc, frOut, frLog>>
    /\ UNCHANGED <<progVars, symVars, tokVars>>

\* The writing end of the pipe is closed, at any point.
FrClose ==
    /\ frOpen
    /\ frOpen' = FALSE
    /\ UNCHANGED <<frIn, frW, frBuf, frPc, frOut, frLog>>
    /\ UNCHANGED <<progVars, symVars, tokVars>>

\* ReadLoop, lines 186-196: ReadMIMEHeader returns once the blank line is
\* there; a malformed line is an error and ends the loop; length 0 continues.
FrReadHeader ==
    /\ frPc.at = "header"
    /\ LET h == ReadLines(frBuf, 1, <<>>)
       IN /\ h.ok
          /\ frBuf' = SubSeq(frBuf, h.next, Len(frBuf))
          /\ IF \E i \in 1..Len(h.lines) : ~ParseLine(h.lines[i]).ok
             THEN frPc' = [at |-> "exit", length |-> 0]
             ELSE LET length == Atoi(HeaderGet(h.lines))
                  IN frPc' = IF length = 0 THEN frPc
                             ELSE IF length < 0 THEN [at |-> "panic", length |-> length]
                             ELSE [at |-> "body", length |-> length]
    /\ UNCHANGED <<frIn, frW, frOpen, frOut, frLog>>
    /\ UNCHANGED <<progVars, symVars, tokVars>>

\* ReadLoop, lines 199-205: io.ReadFull takes exactly length bytes and the
\* body goes to handleMessage; at the end of the stream with fewer bytes
\* left the loop ends.
FrReadBody ==
    /\ frPc.at = "body"
    /\ IF Len(frBuf) >= frPc.length
       THEN /\ frOut' = Append(frOut, SubSeq(frBuf, 1, frPc.length))
            /\ frLog' = Append(frLog, [declared |-> frPc.length,
                                       left |-> Len(frBuf) - frPc.length])
            /\ frBuf' = SubSeq(frBuf, frPc.length + 1, Len(frBuf))
            /\ frPc' = [at |-> "header", length |-> 0]
       ELSE /\ ~frOpen
            /\ frPc' = [at |-> "exit", length |-> 0]
            /\ frBuf' = <<>>
            /\ UNCHANGED <<frOut, frLog>>
    /\ UNCHANGED <<frIn, frW, frOpen>>
    /\ UNCHANGED <<progVars, symVars, tokVars>>

\* ReadLoop, lines 186-189: the stream ended before a whole header.
FrReadExit ==
    /\ frPc.at = "header" /\ ~frOpen /\ ~ReadLines(frBuf, 1, <<>>).ok
    /\ frPc' = [at |-> "exit", length |-> 0]
    /\ frBuf' = <<>>
    /\ UNCHANGED <<frIn, frW, frOpen, frOut, frLog>>
    /\ UNCHANGED <<progVars, symVars, tokVars>>

\* A writer and a ReadLoop at the two ends of one pipe.
InitFrame ==
    /\ ProgServing
    /\ frIn \in SeqsOver(MsgPool, MaxMsgs)
    /\ frW = [n |-> 0, part |-> "header"] /\ frBuf = <<>> /\ frOpen = TRUE
    /\ frPc = [at |-> "header", length |-> 0] /\ frOut = <<>> /\ frLog = <<>>
    /\ SymIdle /\ TokIdle

NextFrame == FrWriteHeader \/ FrWriteBody \/ FrClose \/ FrReadHeader \/ FrReadBody \/ FrReadExit

SpecFrame == InitFrame /\ [][NextFrame]_vars

\* ------------------------------------------------------- SymbolSearch
\* Strings are sequences of characters, as for paths.

UpperAZ == <<"A", "B", "C", "D", "E", "F", "G", "H", "I", "J", "K", "L", "M", "N", "O", "P", "Q", "R", "S", "T", "U", "V", "W", "X", "Y", "Z">>
LowerAZ == <<"a", "b", "c", "d", "e", "f", "g", "h", "i", "j", "k", "l", "m", "n", "o", "p", "q", "r", "s", "t", "u", "v", "w", "x", "y", "z">>

ToLowerChar(c) ==
    IF \E i \in 1..26 : UpperAZ[i] = c THEN LowerAZ[CHOOSE i \in 1..26 : UpperAZ[i] = c] ELSE c

\* strings.ToLower(s), for the ASCII letters used here
ToLower(str) == [i \in 1..Len(str) |-> ToLowerChar(str[i])]

\* strings.Contains(s, substr)
Contains(str, substr) ==
    \E i \in 0..(Len(str) - Len(substr)) : SubSeq(str, i + 1, i + Len(substr)) = substr

\* strings.HasSuffix(s, suffix)
HasSuffix(str, suffix) ==
    Len(suffix) <= Len(str) /\ SubSeq(str, Len(str) - Len(suffix) + 1, Len(str)) = suffix

\* strings.EqualFold(s, t): equal under case folding (ASCII letters here)
EqualFold(a, b) == Len(a) = Len(b) /\ \A i \in 1..Len(a) : ToLowerChar(a[i]) = ToLowerChar(b[i])

\* strings.TrimPrefix(s, prefix)
TrimPrefix(str, prefix) ==
    IF HasPrefix(str, prefix) THEN SubSeq(str, Len(prefix) + 1, Len(str)) ELSE str

FileScheme == <<"f", "i", "l", "e", ":", "/", "/">>
VendorSeg == <<"/", "v", "e", "n", "d", "o", "r", "/">>
CacheSeg == <<"/", ".", "c", "a", "c", "h", "e", "/">>
ModSeg == <<"/", "p", "k", "g", "/", "m", "o", "d", "/">>
TestSuffix == <<"_", "t", "e", "s", "t", ".", "g", "o">>
GoplsTag == <<"g", "o", "p", "l", "s", ":">>

\* SymbolSearch, line 268
PathOf(sym) == TrimPrefix(sym.URI, FileScheme)

\* SymbolSearch, lines 262-265: Filter 1, contiguous substring match
Included(sym, query) == Contains(ToLower(sym.Name), ToLower(query))

\* SymbolSearch, lines 272-276: Filter 2, noise
Noise(pathStr, goRoot) ==
    HasPrefix(pathStr, goRoot) \/ Contains(pathStr, VendorSeg) \/ Contains(pathStr, CacheSeg)

\* SymbolSearch, line 278
IsDepPath(pathStr) == Contains(pathStr, ModSeg)

\* SymbolSearch, lines 284-288: the boost for an exact or a prefix match
MatchBoostPrefixFirst(name, query) ==
    IF HasPrefix(ToLower(name), ToLower(query)) THEN 20
    ELSE IF EqualFold(name, query) THEN 50 ELSE 0
MatchBoost(name, query) ==
    IF EqualFold(name, query) THEN 50
    ELSE IF HasPrefix(ToLower(name), ToLower(query)) THEN 20 ELSE 0

\* SymbolSearch, lines 281-306: the score of a symbol that passed the filters
SymScore(sym, query) ==
    LET pathStr == PathOf(sym)
        isDep == IsDepPath(pathStr)
        s0 == 50
        s1 == s0 + MatchBoost(sym.Name, query)
        s2 == IF sym.Kind = 5 \/ sym.Kind = 11 \/ sym.Kind = 12 THEN s1 + 10 ELSE s1
        s3 == IF isDep THEN s2 - 25 ELSE s2
        s4 == IF isDep /\ HasSuffix(pathStr, TestSuffix) THEN s3 - 50 ELSE s3
    IN s4

\* SymbolSearch, lines 308-310: only positive scores are kept
KeptNonNegative(score) == score >= 0
Kept(score) == ~(score <= 0)

\* SymbolSearch, lines 258-318: one iteration of the loop over the symbols
SymStep(res, sym, query, goRoot) ==
    IF ~Included(sym, query) THEN res
    ELSE IF Noise(PathOf(sym), goRoot) THEN res
    ELSE IF ~Kept(SymScore(sym, query)) THEN res
    ELSE Append(res, FileScore(PathOf(sym), SymScore(sym, query),
                               <<GoplsTag \o sym.Name>>, IsDepPath(PathOf(sym))))

\* ----- inputs

MaxSyms == 2         \* symbols in one workspace/symbol response

Symbol(name, kind, uri) == [Name |-> name, Kind |-> kind, URI |-> uri]

SymNames == { <<"U", "n", "m", "a", "r", "s", "h", "a", "l">>,
              <<"U", "n", "m", "a", "r", "s", "h", "a", "l", "T", "e", "x", "t">>,
              <<"I", "n", "t", "e", "r", "n", "a", "l", "H", "e", "l", "p", "e", "r">> }
SymQueries == { <<"u", "n", "m", "a", "r", "s", "h", "a", "l">>,
                <<"h", "e", "l", "p", "e", "r">>,
                <<"U", "n", "m", "a", "r", "s", "h", "a", "l">> }
\* LSP symbol kinds: 5 class, 11 interface, 12 function, 13 variable
SymKinds == {5, 11, 12, 13}
GoRootDir == <<"/", "g", "o">>
\* a file of the project, a test of the project, a module-cache file, a
\* module-cache test, a vendored file, a standard-library file, a cache file
SymPaths == { <<"/", "a", "p", "p", "/", "x", ".", "g", "o">>,
              <<"/", "a", "p", "p", "/", "x", "_", "t", "e", "s", "t", ".", "g", "o">>,
              <<"/", "m", "/", "p", "k", "g", "/", "m", "o", "d", "/", "d", "/", "x", ".", "g", "o">>,
              <<"/", "m", "/", "p", "k", "g", "/", "m", "o", "d", "/", "d", "/", "x", "_", "t", "e", "s", "t", ".", "g", "o">>,
              <<"/", "a", "p", "p", "/", "v", "e", "n", "d", "o", "r", "/", "v", "/", "x", ".", "g", "o">>,
              <<"/", "g", "o", "/", "s", "r", "c", "/", "x", ".", "g", "o">>,
              <<"/", "h", "/", ".", "c", "a", "c", "h", "e", "/", "x", ".", "g", "o">> }

SymPool == {Symbol(n, k, FileScheme \o p) : n \in SymNames, k \in SymKinds, p \in SymPaths}

\* Symbols that precede the last one of a response: one that is kept, one
\* the noise filter drops, one whose score is not positive.
SymBefore ==
    { Symbol(<<"U", "n", "m", "a", "r", "s", "h", "a", "l">>, 12, FileScheme \o <<"/", "a", "p", "p", "/", "x", ".", "g", "o">>),
      Symbol(<<"I", "n", "t", "e", "r", "n", "a", "l", "H", "e", "l", "p", "e", "r">>, 13, FileScheme \o <<"/", "a", "p", "p", "/", "v", "e", "n", "d", "o", "r", "/", "v", "/", "x", ".", "g", "o">>),
      Symbol(<<"I", "n", "t", "e", "r", "n", "a", "l", "H", "e", "l", "p", "e", "r">>, 13, FileScheme \o <<"/", "m", "/", "p", "k", "g", "/", "m", "o", "d", "/", "d", "/", "x", "_", "t", "e", "s", "t", ".", "g", "o">>) }

SymLists ==
    {<<>>} \cup {b \o <<sym>> : b \in SeqsOver(SymBefore, MaxSyms - 1), sym \in SymPool}

\* ----- actions

\* SymbolSearch, lines 258-318: the loop body for the next symbol.
SymIterate ==
    /\ symPc = "loop" /\ symI < Len(symIn.symbols)
    /\ symOut' = SymStep(symOut, symIn.symbols[symI + 1], symIn.query, symIn.goRoot)
    /\ symI' = symI + 1
    /\ UNCHANGED <<symIn, symPc>>
    /\ UNCHANGED <<progVars, frameVars, tokVars>>

\* SymbolSearch, line 320: return results, nil
SymReturn ==
    /\ symPc = "loop" /\ symI = Len(symIn.symbols)
    /\ symPc' = "done"
    /\ UNCHANGED <<symIn, symI, symOut>>
    /\ UNCHANGED <<progVars, frameVars, tokVars>>

\* SymbolSearch(query) at line 254: Call has returned and the response is
\* decoded into symbols.
InitSym ==
    /\ ProgServing /\ FrameIdle /\ TokIdle
    /\ \E q \in SymQueries, l \in SymLists : symIn = [query |-> q, goRoot |-> GoRootDir, symbols |-> l]
    /\ symI = 0 /\ symOut = <<>> /\ symPc = "loop"

NextSym == SymIterate \/ SymReturn

SpecSym == InitSym /\ [][NextSym]_vars

\* ------------------------------------------------ claims on SymbolSearch

\* The score as the scoring rule states it.
RuleScore(sym, query) ==
    LET dep == Contains(PathOf(sym), ModSeg)
    IN 50
       + (IF ToLower(sym.Name) = ToLower(query) THEN 50
          ELSE IF HasPrefix(ToLower(sym.Name), ToLower(query)) THEN 20 ELSE 0)
       + (IF sym.Kind \in {5, 11, 12} THEN 10 ELSE 0)
       - (IF dep THEN 25 ELSE 0)
       - (IF dep /\ HasSuffix(PathOf(sym), TestSuffix) THEN 50 ELSE 0)

PassesFilters(sym) == Included(sym, symIn.query) /\ ~Noise(PathOf(sym), symIn.goRoot)

\* C13: the records SymbolSearch returns are, in order, those of the
\* symbols that pass the inclusion and noise filters and whose score by the
\* scoring rule is > 0, each with exactly that score and the single reason
\* gopls:<name>; "Unmarshal" for query "unmarshal" outside the module cache
\* scores 100, and 110 with kind 5, 11 or 12.
C13_SymbolScore ==
    symPc = "done" =>
        LET emitted == SelectSeq(symIn.symbols,
                                 LAMBDA sym : PassesFilters(sym) /\ RuleScore(sym, symIn.query) > 0)
        IN /\ Len(symOut) = Len(emitted)
           /\ \A i \in 1..Len(emitted) :
                  /\ symOut[i].Score = RuleScore(emitted[i], symIn.query)
                  /\ symOut[i].Reasons = <<GoplsTag \o emitted[i].Name>>
                  /\ emitted[i].Name = <<"U", "n", "m", "a", "r", "s", "h", "a", "l">> /\ symIn.query = <<"u", "n", "m", "a", "r", "s", "h", "a", "l">>
                     /\ ~Contains(PathOf(emitted[i]), ModSeg)
                         => symOut[i].Score = (IF emitted[i].Kind \in {5, 11, 12} THEN 110 ELSE 100)

\* C13 witness: of two symbols that pass both filters the first, a test of
\* a dependency, scored -25 and was left out; the second, a class, interface
\* or function of the project that only contains the query, was returned
\* with 60.
C13_Witness ==
    /\ symPc = "done" /\ Len(symIn.symbols) = 2
    /\ PassesFilters(symIn.symbols[1]) /\ RuleScore(symIn.symbols[1], symIn.query) = 0 - 25
    /\ Len(symOut) = 1 /\ symOut[1].Score = 60
    /\ symOut[1].Reasons = <<GoplsTag \o symIn.symbols[2].Name>>

\* C14 as stated: no returned record is a test file of a dependency or lies
\* under a vendor folder.
C14_NoDepTestNoVendor ==
    \A i \in 1..Len(symOut) :
        /\ ~(Contains(symOut[i].Path, ModSeg) /\ HasSuffix(symOut[i].Path, TestSuffix))
        /\ ~Contains(symOut[i].Path, VendorSeg)

\* ----------------------------------------------------------- Tokenize

IsUpper(c) == \E i \in 1..26 : UpperAZ[i] = c
IsLower(c) == \E i \in 1..26 : LowerAZ[i] = c

\* a character the splitter's class [^a-zA-Z0-9] does not match
IsAlnum(c) == IsUpper(c) \/ IsLower(c) \/ IsDigit(c)

\* splitter.Split(input, -1) for `[^a-zA-Z0-9]+`: the pieces between the
\* maximal runs of other characters; a run at either end leaves an empty
\* piece there, and the empty input gives one empty piece.
RECURSIVE SplitRuns(_, _, _)
SplitRuns(str, i, cur) ==
    IF i > Len(str) THEN <<cur>>
    ELSE IF IsAlnum(str[i]) THEN SplitRuns(str, i + 1, Append(cur, str[i]))
    ELSE IF i > 1 /\ ~IsAlnum(str[i - 1]) THEN SplitRuns(str, i + 1, cur)
    ELSE <<cur>> \o SplitRuns(str, i + 1, <<>>)

\* Tokenize, line 430: a camelCase boundary before part[i] (i counts from 1)
CamelBoundaryAnyUpper(part, i) == i > 1 /\ IsUpper(part[i])
CamelBoundary(part, i) == i > 1 /\ IsUpper(part[i]) /\ IsLower(part[i - 1])

\* Tokenize, lines 427-438: the tokens of one part
RECURSIVE PartTokens(_, _, _)
PartTokens(part, i, currentToken) ==
    IF i > Len(part)
    THEN IF Len(currentToken) > 0 THEN <<ToLower(currentToken)>> ELSE <<>>
    ELSE IF CamelBoundary(part, i)
         THEN <<ToLower(currentToken)>> \o PartTokens(part, i + 1, <<part[i]>>)
         ELSE PartTokens(part, i + 1, Append(currentToken, part[i]))

RECURSIVE TokensOf(_)
TokensOf(parts) ==
    IF parts = <<>> THEN <<>> ELSE PartTokens(Head(parts), 1, <<>>) \o TokensOf(Tail(parts))

\* Tokenize(input)
Tokenize(input) == TokensOf(SplitRuns(input, 1, <<>>))

MaxTokLen == 4       \* length of the enumerated inputs

TokAlphabet == {"a", "B", "S", "1", "-"}

AuthService == <<"A", "u", "t", "h", "S", "e", "r", "v", "i", "c", "e">>
UserLogin == <<"U", "s", "e", "r", "L", "o", "g", "i", "n">>

RECURSIVE StringsUpTo(_, _)
StringsUpTo(alphabet, n) ==
    IF n = 0 THEN {<<>>}
    ELSE {<<>>} \cup {<<c>> \o t : c \in alphabet, t \in StringsUpTo(alphabet, n - 1)}

TokInputs == StringsUpTo(TokAlphabet, MaxTokLen) \cup {AuthService, UserLogin}

\* Search, line 270: terms := Tokenize(query)
TokCall ==
    /\ tokPc = "call"
    /\ tokOut' = Tokenize(tokIn)
    /\ tokPc' = "done"
    /\ UNCHANGED tokIn
    /\ UNCHANGED <<progVars, frameVars, symVars>>

InitTok ==
    /\ ProgServing /\ FrameIdle /\ SymIdle
    /\ tokIn \in TokInputs /\ tokOut = <<>> /\ tokPc = "call"

NextTok == TokCall

SpecTok == InitTok /\ [][NextTok]_vars

\* ------------------------------------------------- claims on the framing

Bodies(msgs) == [i \in 1..Len(msgs) |-> Marshal(msgs[i])]

\* The bytes of the frames of messages from..to, back to back.
RECURSIVE FramesOf(_, _, _)
FramesOf(msgs, from, to) ==
    IF from > to THEN <<>>
    ELSE Header(Marshal(msgs[from])) \o Marshal(msgs[from]) \o FramesOf(msgs, from + 1, to)

\* C12: what ReadLoop decodes is, body for body and byte for byte, what
\* write serialized, in the same order; each body took exactly the length
\* its header declared, which is the body's length, so that between frames
\* the unread bytes are exactly the frames not yet decoded; a stream of
\* written frames never ends the loop while the pipe is open, and once all
\* frames are written and read every body has been decoded.
C12_FramingRoundTrip ==
    /\ Len(frOut) <= Len(frIn)
    /\ \A i \in 1..Len(frOut) : frOut[i] = Marshal(frIn[i])
    /\ \A i \in 1..Len(frLog) : frLog[i].declared = Len(Marshal(frIn[i]))
    /\ frPc.at = "header" =>
           frBuf = FramesOf(frIn, Len(frOut) + 1, frW.n)
                   \o (IF frW.part = "body" THEN Header(Marshal(frIn[frW.n + 1])) ELSE <<>>)
    /\ frPc.at # "panic"
    /\ frPc.at = "exit" => ~frOpen
    /\ frW = [n |-> Len(frIn), part |-> "header"] /\ frBuf = <<>> /\ frPc.at # "none"
           => frOut = Bodies(frIn)

\* C12 witness: two different messages, the first with a line break, a
\* header line and a quote in its query, were written back to back before
\* the reader ran, and both bodies have been decoded.
C12_Witness ==
    /\ Len(frIn) = MaxMsgs /\ frIn[1].ID = 12 /\ frIn[1] # frIn[2]
    /\ frOut = Bodies(frIn) /\ frOpen
    /\ frLog[1].left > 0

\* --------------------------------------------------- claims on Tokenize

RECURSIVE Concat(_)
Concat(strs) == IF strs = <<>> THEN <<>> ELSE Head(strs) \o Concat(Tail(strs))

\* A token begins at position i of the input.
TokenStart(str, i) ==
    /\ IsAlnum(str[i])
    /\ i = 1 \/ ~IsAlnum(str[i - 1]) \/ (IsUpper(str[i]) /\ IsLower(str[i - 1]))

\* The last position of the token that begins at i.
TokenEnd(str, i) ==
    CHOOSE j \in i..Len(str) :
        /\ \A m \in (i + 1)..j : IsAlnum(str[m]) /\ ~TokenStart(str, m)
        /\ j = Len(str) \/ ~IsAlnum(str[j + 1]) \/ TokenStart(str, j + 1)

\* C15: Tokenize returns one token for each position where a token begins
\* (after a run of non-alphanumeric characters, or an upper-case letter
\* after a lower-case one), lower-cased; "AuthService" gives auth, service
\* and "UserLogin" user, login; every token is non-empty and made of
\* lower-case letters and digits, and the tokens concatenated are the
\* input lower-cased without its non-alphanumeric characters.
C15_Tokenize ==
    tokPc = "done" =>
        LET starts == {i \in 1..Len(tokIn) : TokenStart(tokIn, i)}
            nth(k) == CHOOSE i \in starts : Cardinality({j \in starts : j < i}) = k - 1
        IN /\ Len(tokOut) = Cardinality(starts)
           /\ \A k \in 1..Len(tokOut) :
                  tokOut[k] = ToLower(SubSeq(tokIn, nth(k), TokenEnd(tokIn, nth(k))))
           /\ \A k \in 1..Len(tokOut) :
                  /\ tokOut[k] # <<>>
                  /\ \A m \in 1..Len(tokOut[k]) : IsLower(tokOut[k][m]) \/ IsDigit(tokOut[k][m])
           /\ Concat(tokOut) = ToLower(SelectSeq(tokIn, IsAlnum))
           /\ tokIn = AuthService => tokOut = <<<<"a", "u", "t", "h">>, <<"s", "e", "r", "v", "i", "c", "e">>>>
           /\ tokIn = UserLogin => tokOut = <<<<"u", "s", "e", "r">>, <<"l", "o", "g", "i", "n">>>>

\* C15 witness: an input that begins with a separator and holds two
\* upper-case letters in a row after a lower-case one gave two tokens.
C15_Witness ==
    /\ tokPc = "done" /\ tokIn = <<"-", "a", "B", "S">>
    /\ tokOut = <<<<"a">>, <<"b", "s">>>>

\* ------------------------------------------------- claims on the client

InCall(p) == op[p] \in {"call", "init_call"} /\ pc[p] \in {"register", "write", "wbody", "evictw", "select", "evictt"}

\* C1: a Call that returns a result returns the payload of a response whose
\* id is the id that Call allocated, and no channel of a Call in progress
\* ever holds the payload of a response carrying another id.
C1_OwnResponseOnly ==
    /\ \A p \in Procs : ret[p].kind = "result" => ret[p].rid = ret[p].id
    /\ \A p \in Procs : InCall(p) /\ cch[p] \in DOMAIN chans =>
           \A i \in 1..Len(chans[cch[p]]) : chans[cch[p]][i].rid = cid[p]

\* C1 witness: two Calls have both returned their own results although the
\* response to the later request was emitted first.
C1_Witness ==
    \E p, q \in Procs :
        /\ ret[p].kind = "result" /\ ret[q].kind = "result"
        /\ ret[p].id < ret[q].id /\ ret[q].n < ret[p].n

\* C2: once a Call has returned the timeout failure the pending map has no
\* entry for its id; a response for that id decoded afterwards never finds
\* an entry (it is never handed a channel), no handleMessage goroutine is
\* blocked on its send, and no channel holds a payload of a timed-out id
\* that was decoded late.
C2_TimeoutEvictsLateDropped ==
    /\ \A p \in Procs : ret[p].kind = "timeout" => ret[p].id \notin DOMAIN pending
    /\ \A h \in handlers : h.late => h.pc = "start"
    /\ \A h \in handlers : h.pc = "send" => Len(chans[h.ch]) < 1
    /\ \A c \in DOMAIN chans : \A i \in 1..Len(chans[c]) : chans[c][i].n \notin lateDrops

\* C2 witness: a Call timed out and a response for its id, decoded after
\* that, has been dropped by handleMessage.
C2_Witness ==
    \E p \in Procs : ret[p].kind = "timeout" /\ lateDrops # {} /\ handlers = {}

\* C5: the chunks written to stdin form whole frames: every body directly
\* follows the header of the same message, every header but a trailing one
\* is directly followed by its body, and at most one goroutine is between
\* the header write and the body write.
C5_FramesNotInterleaved ==
    /\ \A i \in 1..Len(wire) :
          /\ wire[i].part = "body" =>
                 i > 1 /\ wire[i - 1] = [wire[i] EXCEPT !.part = "header"]
          /\ wire[i].part = "header" /\ i < Len(wire) =>
                 wire[i + 1] = [wire[i] EXCEPT !.part = "body"]
    /\ Cardinality({p \in Procs : pc[p] = "wbody"}) <= 1

\* C5 witness: two writers of different message kinds (a request and a
\* notification) write concurrently; one has written its header and holds
\* the mutex while the other is waiting to write.
C5_Witness ==
    \E p, q \in Procs :
        /\ pc[p] = "wbody" /\ pc[q] = "write"
        /\ MsgOf(op[p]) # MsgOf(op[q])

\* C6: ids are handed out strictly increasing, the first is 1, none is 0,
\* and no two Calls in progress hold the same id.
C6_IdsIncreasingDistinctNonzero ==
    /\ \A i \in 1..Len(allocLog) : allocLog[i] # 0
    /\ Len(allocLog) > 0 => allocLog[1] = 1
    /\ \A i, j \in 1..Len(allocLog) : i < j => allocLog[i] < allocLog[j]
    /\ \A p, q \in Procs : p # q /\ InCall(p) /\ InCall(q) => cid[p] # cid[q]

\* C6 witness: two Calls are in progress at once, each with its id.
C6_Witness ==
    \E p, q \in Procs : p # q /\ pc[p] = "register" /\ pc[q] = "register" /\ Len(allocLog) >= 2

\* C7: for every id at most one removal of its pending entry finds the
\* entry (resolution by handleMessage, eviction on timeout, eviction on
\* write failure), so at most one response per id is ever delivered.
C7_AtMostOneRemoval ==
    \A id \in DOMAIN removals : Len(removals[id]) <= 1

\* C7 witness: handleMessage resolved an id and the timeout eviction of the
\* same id ran second, found nothing and returned.
C7_Witness ==
    \E p \in Procs : ret[p].kind = "timeout" /\ removals[ret[p].id] = <<"resolve">>

\* A Call of p has returned, and how.
Returned(p) == ret[p].kind \in {"result", "timeout", "writeerr"} /\ ret[p].id # 0

\* C11: a pending entry never outlives its Call: every id in the pending
\* map is the id of a Call in progress that has registered it, and when a
\* Call has returned (result, timeout or write error) the map has no entry
\* for its id; a Call that has returned a write error has had its entry
\* removed by the write-error eviction.
C11_PendingWithinCall ==
    /\ \A id \in DOMAIN pending :
           \E p \in Procs : InCall(p) /\ cid[p] = id /\ pc[p] # "register"
    /\ \A p \in Procs : Returned(p) => ret[p].id \notin DOMAIN pending
    /\ \A p \in Procs : ret[p].kind = "writeerr" /\ ret[p].id # 0 =>
           removals[ret[p].id] = <<"writeerr">>

\* C11 witness: one Call has returned a write error, another a result, and
\* the pending map is empty.
C11_Witness ==
    \E p, q \in Procs :
        /\ ret[p].kind = "writeerr" /\ ret[p].id # 0
        /\ ret[q].kind = "result"
        /\ pending = <<>>

\* A resolution by handleMessage is recorded in this step.
ResolvedNow == \E id \in DOMAIN removals : removals'[id] = Append(removals[id], "resolve")

\* The Call of p returns in this step.
ReturnsNow(p) == InCall(p) /\ ~InCall(p)'

C18_ResolvedNeverTimesOut ==
    \A p \in Procs : ret[p].kind = "timeout" => removals[ret[p].id] # <<"resolve">>

\* The Call of p takes a step of its timeout or write-failure path: the
\* timer fires, or it evicts its entry and returns the failure.
FailureStep(p) ==
    \/ pc[p] = "select" /\ pc'[p] = "evictt"
    \/ pc[p] \in {"evictt", "evictw"} /\ pc'[p] # pc[p]

\* C19: a step of the timeout or write-failure path of one Call removes at
\* most that Call's own entry and leaves everything else as it was: the
\* other entries and every channel, the id counter, the mutex, the wire,
\* the stream, the handleMessage goroutines and the other callers; when the
\* failure is returned the Call's own entry is gone.
C19_FailureTouchesOwnEntryOnly ==
    [][\A p \in Procs : FailureStep(p) =>
          /\ DOMAIN pending \ {cid[p]} \subseteq DOMAIN pending'
          /\ DOMAIN pending' \subseteq DOMAIN pending
          /\ \A id \in DOMAIN pending' : pending'[id] = pending[id]
          /\ ~InCall(p)' => cid[p] \notin DOMAIN pending'
          /\ chans' = chans /\ seq' = seq /\ mu' = mu
          /\ wire' = wire /\ stream' = stream /\ handlers' = handlers /\ rlPc' = rlPc
          /\ \A q \in Procs \ {p} :
                 /\ pc'[q] = pc[q] /\ op'[q] = op[q] /\ ret'[q] = ret[q]
                 /\ cid'[q] = cid[q] /\ cch'[q] = cch[q]]_vars

\* C19 witness: one Call has returned the timeout failure, the response to
\* it was read after that and dropped, and the other Call has received its
\* own response, which was read later still.
C19_Witness ==
    \E p, q \in Procs :
        /\ ret[p].kind = "timeout" /\ ret[q].kind = "result" /\ ret[q].rid = ret[q].id
        /\ \E n \in lateDrops : n < ret[q].n

\* The body h is no response to a pending request: it does not parse, it is
\* a notification, its id is 0, or no pending entry has its id.
NotForPending(h) == h.kind # "resp" \/ h.id = 0 \/ h.id \notin DOMAIN pending

\* C21: the handleMessage goroutine of a body that is no response to a
\* pending request ends without a send and leaves the pending map, every
\* channel, the callers and the read loop as they were; only a response
\* with a nonzero id ever gets to the send; and when ReadLoop reads a frame
\* of declared length 0 it starts no goroutine, changes neither the map nor
\* a channel, and stays in its loop at the next frame.
C21_NonResponsesDiscarded ==
    /\ [][\A h \in handlers : (h.pc = "start" /\ h \notin handlers' /\ NotForPending(h)) =>
              /\ handlers' = handlers \ {h}
              /\ pending' = pending /\ chans' = chans
              /\ pc' = pc /\ ret' = ret /\ rlPc' = rlPc /\ stream' = stream]_vars
    /\ [][(rlPc = "run" /\ stream # <<>> /\ Head(stream).kind = "empty" /\ stream' = Tail(stream)) =>
              /\ rlPc' = "run" /\ handlers' = handlers
              /\ pending' = pending /\ chans' = chans /\ pc' = pc /\ ret' = ret]_vars
    /\ [](\A h \in handlers : h.pc = "send" => h.kind = "resp" /\ h.id # 0)

\* C21 witness: ReadLoop skipped a frame of length 0 and went on to read a
\* later frame, a response whose id had no pending entry any more, which
\* handleMessage discarded; another Call's entry is still pending and no
\* channel holds a value.
C21_Witness ==
    /\ \E d, e \in discards : d[2] = "empty" /\ e[2] = "resp" /\ e[3] # 0 /\ d[1] < e[1]
    /\ pending # <<>> /\ rlPc = "run"
    /\ \A c \in DOMAIN chans : chans[c] = <<>>

\* C23: while a Call has not yet registered its channel nothing of its
\* request is on the wire, and no frame in the stream and no handleMessage
\* goroutine carries its id; so a response that handleMessage discards
\* because its id has no pending entry is a response to a request whose
\* entry was registered and has been removed since, by a resolution, a
\* timeout or a write failure.
C23_RegisteredBeforeWritten ==
    /\ \A p \in Procs : pc[p] = "register" =>
           /\ \A i \in 1..Len(wire) : wire[i].msg = "request" => wire[i].id # cid[p]
           /\ \A i \in 1..Len(stream) : stream[i].id # cid[p]
           /\ \A h \in handlers : h.id # cid[p]
    /\ \A i \in 1..Len(wire) :
           wire[i].msg = "request" => wire[i].id \in DOMAIN pending \/ removals[wire[i].id] # <<>>
    /\ \A d \in discards : d[2] = "resp" /\ d[3] # 0 => removals[d[3]] # <<>>

\* C23 witness: a Call waits in its select, its request is on the wire, and
\* the handleMessage goroutine of the response to it has found and removed
\* its entry and is about to send; no response to it was discarded.
C23_Witness ==
    \E p \in Procs : \E h \in handlers :
        /\ pc[p] = "select" /\ h.pc = "send" /\ h.id = cid[p] /\ h.ch = cch[p]
        /\ removals[cid[p]] = <<"resolve">>
        /\ cid[p] \in RequestsOnWire(wire)
        /\ \A d \in discards : d[3] # cid[p]

\* --------------------------------------------------- claims on InitGopls

AfterInit == pc[Main] \in {"init_returned", "searched", "exit"}

InitializeAt(i) == wire[i].part = "body" /\ wire[i].method = "initialize"
InitializedAt(j) == wire[j].part = "body" /\ wire[j].method = "initialized"

\* C9: GoplsInstance is set only if the subprocess was started and the
\* initialize Call returned a non-nil result; SymbolSearch is called only
\* with GoplsInstance set; after a launch failure, a write error, a timeout
\* or an error response GoplsInstance is nil and SymbolSearch is not called,
\* in InitGopls and in everything main does afterwards.
C9_ReadyOnlyAfterHandshake ==
    /\ goplsInstance => procState # "none" /\ initRet.kind = "result" /\ initRet.val # NilResult
    /\ symCalls > 0 => goplsInstance
    /\ AfterInit /\ (procState = "none" \/ initRet.kind # "result" \/ initRet.val = NilResult)
           => ~goplsInstance /\ symCalls = 0

\* C9 witness: initialize was answered with an error response (nil
\* result); the search has run without SymbolSearch and main has shut down.
C9_Witness ==
    /\ pc[Main] = "exit" /\ initRet.kind = "result" /\ initRet.val = NilResult
    /\ ~goplsInstance /\ symCalls = 0

\* C10 as stated: every InitGopls that issued the initialize request has,
\* when it returns, written the initialized notification after it.
C10_NotifyUnconditional ==
    AfterInit =>
        \A i \in 1..Len(wire) : InitializeAt(i) => \E j \in (i + 1)..Len(wire) : InitializedAt(j)

\* C10 amended: the initialized notification is sent exactly when the
\* initialize Call returned without error: then Notify is invoked and,
\* unless its write fails, its frame follows the initialize request on the
\* wire; after a failed Call nothing more is written; the notification is
\* never on the wire without the initialize request before it.
C10_NotifyIffCallReturnedNoError ==
    /\ op[Main] = "init_notify" => initRet.kind = "result"
    /\ AfterInit /\ initRet.kind = "result" =>
           /\ op[Main] = "init_notify"
           /\ \/ ret[Main].kind = "writeerr"
              \/ \E i, j \in 1..Len(wire) : i < j /\ InitializeAt(i) /\ InitializedAt(j)
    /\ AfterInit /\ initRet.kind # "result" => \A j \in 1..Len(wire) : wire[j].method # "initialized"
    /\ \A j \in 1..Len(wire) : wire[j].method = "initialized" =>
           \E i \in 1..(j - 1) : InitializeAt(i)

\* C10 witness: initialize was answered with an error response and the
\* initialized notification was written after the request all the same.
C10_Witness ==
    /\ AfterInit /\ initRet.kind = "result" /\ initRet.val = NilResult
    /\ \E i, j \in 1..Len(wire) : i < j /\ InitializeAt(i) /\ InitializedAt(j)

\* C24: once ShutdownGopls has run, no subprocess that InitGopls started
\* is still running, however the handshake ended: it was killed, or it had
\* exited by itself, or none was started.
C24_ShutdownKillsStarted ==
    pc[Main] = "exit" => procState # "running"

\* ------------------------------------------------------ claims on Search

AbsOf(rec) == ExistingAbs(rec.Path, absRoot)
Range(s) == {s[i] : i \in 1..Len(s)}
Count(s, x) == Cardinality({i \in 1..Len(s) : s[i] = x})
RemoteRan == goplsInstance /\ ~remoteIn.err

\* C3: when the local and the remote branch each produce a record for the
\* same absolute path, the returned collection holds exactly one entry for
\* that path, with the local record's score and reasons, and no two entries
\* of the result resolve to the same absolute path.
C3_OneEntryPerPathLocalWins ==
    sPc = "done" =>
        /\ \A i, j \in 1..Len(returned) : i < j => AbsOf(returned[i]) # AbsOf(returned[j])
        /\ RemoteRan =>
              \A l \in Range(localIn), g \in Range(remoteIn.res) :
                  AbsOf(l) = g.Path =>
                      \E k \in 1..Len(returned) :
                          /\ AbsOf(returned[k]) = g.Path
                          /\ returned[k].Score = l.Score /\ returned[k].Reasons = l.Reasons
                          /\ \A m \in 1..Len(returned) : AbsOf(returned[m]) = g.Path => m = k

\* C4: the returned sequence is non-increasing in Score, has at most 50
\* entries, consists of records of the merged collection, and no record
\* left out scores strictly higher than a record kept.
C4_SortedTop50 ==
    sPc = "done" =>
        /\ \A i \in 1..(Len(returned) - 1) : returned[i].Score >= returned[i + 1].Score
        /\ Len(returned) <= MaxResults
        /\ Len(returned) = (IF Len(results) > MaxResults THEN MaxResults ELSE Len(results))
        /\ \A r \in Range(returned) : Count(returned, r) <= Count(results, r)
        /\ \A d \in Range(results) : Count(returned, d) < Count(results, d) =>
               \A k \in Range(returned) : d.Score <= k.Score

\* C4 witness: neither branch alone exceeds 50 records, together they do,
\* and 50 are returned.
C4_Witness ==
    /\ sPc = "done" /\ RemoteRan
    /\ Len(localIn) < MaxResults /\ Len(remoteIn.res) < MaxResults
    /\ Len(results) > MaxResults /\ Len(returned) = MaxResults

\* C8: Search returns a nil error; without a client, or when SymbolSearch
\* failed, the result is the local result sorted and truncated, and it is
\* empty when the local branch found nothing.
C8_RemoteFailureIsLocalOnly ==
    sPc = "done" =>
        /\ searchErr = "nil"
        /\ ~RemoteRan => returned \in {Truncate(t) : t \in SortOutcomes(localIn)}
        /\ ~RemoteRan /\ localIn = <<>> => returned = <<>>

\* C8 witness: the client is there, SymbolSearch failed, and the more than
\* 50 local records came back sorted and truncated.
C8_Witness ==
    /\ sPc = "done" /\ goplsInstance /\ remoteIn.err /\ symCalls = 1
    /\ Len(localIn) > MaxResults /\ Len(returned) = MaxResults

\* C16: the remote records are merged only once the local branch has
\* appended its records: whenever the merge loop has run over at least one
\* remote record, the local branch has completed.
C16_MergeAfterLocalBranch ==
    remotePc = "done" /\ ~remoteIn.err /\ remoteIn.res # <<>> => localPc = "done"

\* The path lies in the directory root: it is root or continues it with a
\* separator.
InsideRoot(path, root) == path = root \/ HasPrefix(path, root \o <<Sep>>)

\* C20: the record the merge inserted for a remote record has IsDep false
\* and the path relative to the root if the remote path lies inside the
\* root, and is the remote record unchanged, absolute path and dependency
\* flag, if it lies outside, also under a sibling directory whose name
\* begins with the root's name.
C20_LocalizedIffInsideRoot ==
    remotePc = "done" /\ ~remoteIn.err =>
        \A g \in Range(remoteIn.res) : \A i \in 1..Len(results) :
            results[i].Score = g.Score /\ results[i].Reasons = g.Reasons =>
                IF InsideRoot(g.Path, absRoot)
                THEN /\ results[i].IsDep = FALSE
                     /\ results[i].Path = SubSeq(g.Path, Len(absRoot) + 2, Len(g.Path))
                ELSE results[i] = g

\* The stable sort of s by descending Score: every record goes behind the
\* records placed before it that do not score lower.
InsertBehindEquals(sorted, x) ==
    LET ahead == {i \in 1..Len(sorted) : sorted[i].Score >= x.Score}
        k == Cardinality(ahead)
    IN SubSeq(sorted, 1, k) \o <<x>> \o SubSeq(sorted, k + 1, Len(sorted))
RECURSIVE StableSortFrom(_, _, _)
StableSortFrom(s, i, acc) ==
    IF i > Len(s) THEN acc ELSE StableSortFrom(s, i + 1, InsertBehindEquals(acc, s[i]))
StableSort(s) == StableSortFrom(s, 1, <<>>)

\* C22: Search returns the stable sort of the merged collection by
\* descending Score, cut to 50: records of equal Score keep the relative
\* order they had in the merged collection, so the returned sequence is
\* determined by the merged collection.
C22_SortStable ==
    sPc = "done" => returned = Truncate(StableSort(results))

====
